---- MODULE Spec2Model ----
(***************************************************************************)
(* The energy-history page (src/steamlit_app.py): one pass of the script   *)
(* reads energy_history.csv, validates it, filters it by a date range,     *)
(* computes the insight metrics and draws the selected relationship plots. *)
(* st_autorefresh re-runs the script; each run is one pass.                *)
(*                                                                         *)
(* Numbers stand for the file's decimal values in a fixed unit (a quarter: *)
(* 4, 6, 9 are 1.0, 1.5, 2.25).  A point in time is a count of ticks since *)
(* day 0 00:00:00, TicksPerSecond ticks to the second, so that a           *)
(* sub-second timestamp such as 23:59:59.5 can be told from 23:59:59.      *)
(* Figure drawing (matplotlib, seaborn, the correlation heatmap) is not    *)
(* modelled: only the values handed to it are.                             *)
(***************************************************************************)
EXTENDS Integers, Sequences, FiniteSets, TLC

VARIABLES
    pc,             \* position of the running script
    csv,            \* energy_history.csv: [exists, cols, rows]
    df,             \* the DataFrame of the pass
    dtypes,         \* dtype read_csv gave each numeric column
    missing_cols,   \* the list the schema check reports
    start_date,     \* the date_input pair
    end_date,
    filtered_df,
    total_energy,
    total_cost,
    max_power,      \* the value handed to st.metric("Max Power", ...)
    selected_plots, \* the titles handed to the plotting loop
    plots,          \* the projections drawn so far in this pass
    outcome,        \* how the pass ended ("Running" while it has not)
    refreshed       \* whether st_autorefresh started this pass

vars == <<pc, csv, df, dtypes, missing_cols, start_date, end_date, filtered_df,
          total_energy, total_cost, max_power, selected_plots, plots, outcome,
          refreshed>>

---------------------------------------------------------------------------
(* Bounds of the model *)

MaxRows == 3
MaxDay == 1
MaxPlots == 2
TicksPerSecond == 2

(* Program constants *)

SecondsPerDay == 86400
NaT == -1

TicksPerDay == SecondsPerDay * TicksPerSecond

---------------------------------------------------------------------------
(* Values *)

Num(n) == [kind |-> "num", val |-> n]
NaN == [kind |-> "nan", val |-> 0]
FormatError == [kind |-> "error", val |-> 0]
Unset == [kind |-> "unset", val |-> 0]

(* Cells of the file, as text *)

NumberCell(n) == [kind |-> "number", val |-> n]
BlankCell == [kind |-> "blank", val |-> 0]
TextCell == [kind |-> "text", val |-> 0]
TimeCell(d, s, t) == [kind |-> "datetime", day |-> d, sec |-> s, tick |-> t]
BadTimeCell == [kind |-> "text", day |-> 0, sec |-> 0, tick |-> 0]

expected_cols ==
    <<"Time", "Current (mA)", "Voltage (V)", "Power (W)", "Energy (kWh)",
      "Cost (BDT)", "Duration (min)">>

NumericCols == {expected_cols[i] : i \in 2..Len(expected_cols)}
ExpectedSet == {"Time"} \cup NumericCols

plot_options ==
    ("Voltage vs Time" :> <<"Time", "Voltage (V)">>) @@
    ("Current vs Time" :> <<"Time", "Current (mA)">>) @@
    ("Power vs Time" :> <<"Time", "Power (W)">>) @@
    ("Energy vs Time" :> <<"Time", "Energy (kWh)">>) @@
    ("Cost vs Time" :> <<"Time", "Cost (BDT)">>) @@
    ("Voltage vs Current" :> <<"Voltage (V)", "Current (mA)">>) @@
    ("Voltage vs Power" :> <<"Voltage (V)", "Power (W)">>) @@
    ("Current vs Power" :> <<"Current (mA)", "Power (W)">>) @@
    ("Energy vs Cost" :> <<"Energy (kWh)", "Cost (BDT)">>)

DefaultPlots == <<"Voltage vs Time", "Current vs Time", "Power vs Time">>

---------------------------------------------------------------------------
(* Sequence helpers *)

SeqsUpTo(S, n) == UNION {[1..k -> S] : k \in 0..n}

RECURSIVE SeqMin(_)
SeqMin(s) ==
    IF Len(s) = 1 THEN s[1]
    ELSE LET m == SeqMin(Tail(s)) IN IF s[1] <= m THEN s[1] ELSE m

RECURSIVE SeqMax(_)
SeqMax(s) ==
    IF Len(s) = 1 THEN s[1]
    ELSE LET m == SeqMax(Tail(s)) IN IF s[1] >= m THEN s[1] ELSE m

Column(frame, col) == [i \in 1..Len(frame) |-> frame[i][col]]

---------------------------------------------------------------------------
(* Load CSV: lines 21-38 *)

\* pd.to_datetime(cell, errors='coerce') on one cell of the Time column
ToDatetimeCell(cell) ==
    IF cell.kind = "datetime"
    THEN (cell.day * SecondsPerDay + cell.sec) * TicksPerSecond + cell.tick
    ELSE NaT

\* df['Time'] = pd.to_datetime(df['Time'], errors='coerce')
ParseTimes(rows) ==
    [i \in 1..Len(rows) |-> [rows[i] EXCEPT !["Time"] = ToDatetimeCell(@)]]

KeepAll(frame) == frame

\* df.dropna(subset=['Time'], inplace=True)
DropNaT(frame) ==
    LET HasTime(r) == r["Time"] # NaT IN SelectSeq(frame, HasTime)

\* the dtype pd.read_csv infers for a numeric column
ColumnDtype(rows, col) ==
    IF \E i \in 1..Len(rows) : rows[i][col].kind = "text"
    THEN "object" ELSE "float64"

ReadDtypes(c) ==
    [col \in NumericCols |->
        IF col \in c.cols THEN ColumnDtype(c.rows, col) ELSE "absent"]

\* missing_cols = [col for col in expected_cols if col not in df.columns]
MissingCols(cols) ==
    LET Absent(col) == col \notin cols IN SelectSeq(expected_cols, Absent)

LoadOutcomeNoEmptyCheck(c) ==
    IF ~c.exists THEN "SourceNotFound"
    ELSE IF "Time" \notin c.cols THEN "KeyError"
    ELSE IF MissingCols(c.cols) # <<>> THEN "SchemaError"
    ELSE "Running"

\* how lines 21-38 end for a source file
LoadOutcome(c) ==
    IF ~c.exists THEN "SourceNotFound"
    ELSE IF Len(c.rows) = 0 THEN "EmptyDataset"
    ELSE IF "Time" \notin c.cols THEN "KeyError"
    ELSE IF MissingCols(c.cols) # <<>> THEN "SchemaError"
    ELSE "Running"

Load ==
    /\ pc = "load"
    /\ LET o == LoadOutcome(csv) IN
        /\ outcome' = o
        /\ pc' = IF o = "Running" THEN "date_filter" ELSE "stopped"
        /\ df' = IF o = "SourceNotFound" THEN df
                 ELSE IF o \in {"EmptyDataset", "KeyError"} THEN csv.rows
                 ELSE DropNaT(ParseTimes(csv.rows))
        /\ dtypes' = IF o = "SourceNotFound" THEN dtypes ELSE ReadDtypes(csv)
        /\ missing_cols' = IF o = "SchemaError" THEN MissingCols(csv.cols)
                           ELSE missing_cols
    /\ UNCHANGED <<csv, start_date, end_date, filtered_df, total_energy,
                   total_cost, max_power, selected_plots, plots, refreshed>>

---------------------------------------------------------------------------
(* Date Filter: lines 52-63, 152-153 *)

\* Timestamp.date()
Date(ts) == ts \div TicksPerDay

\* pd.to_datetime(start_date)
StartDatetime(d) == d * TicksPerDay

EndDatetimeNextMidnight(d) == d * TicksPerDay + TicksPerDay

\* pd.to_datetime(end_date) + pd.Timedelta(days=1) - pd.Timedelta(seconds=1)
EndDatetime(d) == d * TicksPerDay + TicksPerDay - TicksPerSecond

\* df[(df["Time"] >= start_datetime) & (df["Time"] <= end_datetime)]
RangeFilter(frame, s, e) ==
    LET Keep(r) == r["Time"] >= StartDatetime(s) /\ r["Time"] <= EndDatetime(e)
    IN SelectSeq(frame, Keep)

DateFilter ==
    /\ pc = "date_filter"
    /\ IF df = <<>>
       THEN \* df["Time"].min() is NaT, and NaT.date() raises ValueError
            /\ outcome' = "ValueError"
            /\ pc' = "stopped"
            /\ UNCHANGED <<start_date, end_date, filtered_df>>
       ELSE \* st.date_input hands back two days of min_date..max_date; the
            \* script does not order them
            LET min_date == Date(SeqMin(Column(df, "Time")))
                max_date == Date(SeqMax(Column(df, "Time")))
            IN \E s \in min_date..max_date, e \in min_date..max_date :
                /\ start_date' = s
                /\ end_date' = e
                /\ filtered_df' = RangeFilter(df, s, e)
                /\ outcome' = IF filtered_df' = <<>> THEN "NoDataInRange"
                              ELSE "Running"
                /\ pc' = IF filtered_df' = <<>> THEN "stopped" ELSE "insights"
    /\ UNCHANGED <<csv, df, dtypes, missing_cols, total_energy, total_cost,
                   max_power, selected_plots, plots, refreshed>>

---------------------------------------------------------------------------
(* Insights: lines 96-104 *)

\* pd.to_numeric(cell, errors="coerce")
ToNumeric(cell) == IF cell.kind = "number" THEN Num(cell.val) ELSE NaN

\* pd.to_numeric(filtered_df[col], errors="coerce").dropna()
NumericSeries(frame, col) ==
    LET coerced == [i \in 1..Len(frame) |-> ToNumeric(frame[i][col])]
        NotNa(v) == v.kind = "num"
        kept == SelectSeq(coerced, NotNa)
    IN [i \in 1..Len(kept) |-> kept[i].val]

DeltaClamped(series) ==
    IF Len(series) >= 2 /\ series[Len(series)] >= series[1]
    THEN series[Len(series)] - series[1] ELSE 0

\* series.iloc[-1] - series.iloc[0] if len(series) >= 2 else 0.0
Delta(series) ==
    IF Len(series) >= 2 THEN series[Len(series)] - series[1] ELSE 0

\* f"{filtered_df['Power (W)'].max():.2f} W": the column is not coerced.  A
\* float64 column gives its largest number, NaN cells skipped (NaN when there
\* is none).  An object column holds the cells as str (blank cells as NaN):
\* its max is a str or a TypeError, and the :.2f format of a str raises.
PowerMax(frame, dtype) ==
    LET cells == Column(frame, "Power (W)") IN
    IF dtype = "float64"
    THEN LET nums == NumericSeries(frame, "Power (W)")
         IN IF nums = <<>> THEN NaN ELSE Num(SeqMax(nums))
    ELSE IF \E i \in 1..Len(cells) : cells[i].kind # "blank"
         THEN FormatError ELSE NaN

Insights ==
    /\ pc = "insights"
    /\ total_energy' = Num(Delta(NumericSeries(filtered_df, "Energy (kWh)")))
    /\ total_cost' = Num(Delta(NumericSeries(filtered_df, "Cost (BDT)")))
    /\ max_power' = PowerMax(filtered_df, dtypes["Power (W)"])
    /\ outcome' = IF max_power' = FormatError THEN "FormatError" ELSE "Running"
    /\ pc' = IF max_power' = FormatError THEN "stopped" ELSE "multiselect"
    /\ UNCHANGED <<csv, df, dtypes, missing_cols, start_date, end_date,
                   filtered_df, selected_plots, plots, refreshed>>

---------------------------------------------------------------------------
(* Metric Relationship Plots: lines 115-150 *)

ProjectionReversed(frame, x, y) ==
    [i \in 1..Len(frame) |->
        <<frame[Len(frame) + 1 - i][x], frame[Len(frame) + 1 - i][y]>>]

\* the (x, y) values sns.lineplot(data=filtered_df, x=x, y=y) is handed
Projection(frame, x, y) ==
    [i \in 1..Len(frame) |-> <<frame[i][x], frame[i][y]>>]

\* selected_plots = st.multiselect(...): the titles the loop is handed
MultiSelect(Requests) ==
    /\ pc = "multiselect"
    /\ selected_plots' \in Requests
    /\ plots' = <<>>
    /\ pc' = "plots"
    /\ UNCHANGED <<csv, df, dtypes, missing_cols, start_date, end_date,
                   filtered_df, total_energy, total_cost, max_power, outcome,
                   refreshed>>

\* one iteration of: for title in selected_plots
Plot ==
    /\ pc = "plots"
    /\ Len(plots) < Len(selected_plots)
    /\ LET title == selected_plots[Len(plots) + 1] IN
        IF title \in DOMAIN plot_options
        THEN /\ plots' = Append(plots,
                    [title |-> title,
                     pairs |-> Projection(filtered_df, plot_options[title][1],
                                          plot_options[title][2])])
             /\ UNCHANGED <<pc, outcome>>
        ELSE \* plot_options[title] raises KeyError, which nothing catches
             /\ outcome' = "PlotKeyError"
             /\ pc' = "stopped"
             /\ UNCHANGED plots
    /\ UNCHANGED <<csv, df, dtypes, missing_cols, start_date, end_date,
                   filtered_df, total_energy, total_cost, max_power,
                   selected_plots, refreshed>>

\* the loop is exhausted and the script ends
Finish ==
    /\ pc = "plots"
    /\ Len(plots) = Len(selected_plots)
    /\ outcome' = "Rendered"
    /\ pc' = "stopped"
    /\ UNCHANGED <<csv, df, dtypes, missing_cols, start_date, end_date,
                   filtered_df, total_energy, total_cost, max_power,
                   selected_plots, plots, refreshed>>

---------------------------------------------------------------------------
(* Re-run: line 10 *)

NoDtypes == [col \in NumericCols |-> "absent"]

StaleRun ==
    /\ UNCHANGED <<df, dtypes, filtered_df>>
    /\ missing_cols' = <<>>
    /\ start_date' = 0
    /\ end_date' = 0
    /\ total_energy' = Unset
    /\ total_cost' = Unset
    /\ max_power' = Unset
    /\ selected_plots' = <<>>
    /\ plots' = <<>>

\* a run of the script starts with none of the previous run's values
FreshRun ==
    /\ df' = <<>>
    /\ dtypes' = NoDtypes
    /\ missing_cols' = <<>>
    /\ start_date' = 0
    /\ end_date' = 0
    /\ filtered_df' = <<>>
    /\ total_energy' = Unset
    /\ total_cost' = Unset
    /\ max_power' = Unset
    /\ selected_plots' = <<>>
    /\ plots' = <<>>

\* st_autorefresh(interval=60000) runs the script again
Refresh ==
    /\ pc = "stopped"
    /\ pc' = "load"
    /\ outcome' = "Running"
    /\ refreshed' = TRUE
    /\ FreshRun
    /\ UNCHANGED csv

---------------------------------------------------------------------------
(* The source file and what the logger may append to it between passes *)

DefaultRow ==
    [col \in ExpectedSet |->
        CASE col = "Time" -> TimeCell(0, 0, 0)
          [] col = "Current (mA)" -> NumberCell(500)
          [] col = "Voltage (V)" -> NumberCell(220)
          [] col = "Power (W)" -> NumberCell(110)
          [] col = "Energy (kWh)" -> NumberCell(4)
          [] col = "Cost (BDT)" -> NumberCell(40)
          [] OTHER -> NumberCell(1)]

\* 00:00:00, 23:59:59 and 23:59:59 plus one tick of every day, and a Time
\* that does not parse
TimeCells ==
    {BadTimeCell} \cup
    {TimeCell(d, s[1], s[2]) :
        d \in 0..MaxDay, s \in {<<0, 0>>, <<SecondsPerDay - 1, 0>>,
                                <<SecondsPerDay - 1, 1>>}}

NumCells == {NumberCell(4), NumberCell(6), NumberCell(9), BlankCell, TextCell}

VoltCells == {NumberCell(220), NumberCell(230)}

RowsVarying(col, cells) == {[DefaultRow EXCEPT ![col] = c] : c \in cells}

Restrict(r, cols) == [col \in cols |-> r[col]]

NoFile == [exists |-> FALSE, cols |-> {}, rows |-> <<>>]

FullFile(rows) == [exists |-> TRUE, cols |-> ExpectedSet, rows |-> rows]

\* every non-empty header over the expected columns, with no row or with one
HeaderFiles ==
    {[exists |-> TRUE, cols |-> cols, rows |-> rows] :
        cols \in SUBSET ExpectedSet \ {{}},
        rows \in {<<>>}} \cup
    {[exists |-> TRUE, cols |-> cols, rows |-> <<Restrict(DefaultRow, cols)>>] :
        cols \in SUBSET ExpectedSet \ {{}}}

FilesVarying(col, cells) ==
    {FullFile(rows) : rows \in SeqsUpTo(RowsVarying(col, cells), MaxRows)}

AppFiles ==
    {NoFile} \cup HeaderFiles
    \cup FilesVarying("Time", TimeCells)
    \cup FilesVarying("Power (W)", NumCells)
    \cup FilesVarying("Energy (kWh)", NumCells)
    \cup FilesVarying("Cost (BDT)", NumCells)

PlotFiles == FilesVarying("Voltage (V)", VoltCells)

AllRows ==
    RowsVarying("Time", TimeCells) \cup RowsVarying("Power (W)", NumCells)
    \cup RowsVarying("Energy (kWh)", NumCells)
    \cup RowsVarying("Cost (BDT)", NumCells)
    \cup RowsVarying("Voltage (V)", VoltCells)

\* the multiselect offers the catalog's titles only
AppRequests == {<<>>, DefaultPlots}

\* the plotting loop handed any list of titles
AnyRequests ==
    SeqsUpTo(DOMAIN plot_options \cup {"Unknown vs Metric"}, MaxPlots)

\* the logger appends one reading to energy_history.csv before a pass reads it
SourceChanges(Files) ==
    /\ pc = "load"
    /\ csv.exists
    /\ \E r \in AllRows :
        LET f == [csv EXCEPT !.rows = Append(@, Restrict(r, csv.cols))] IN
        /\ f \in Files
        /\ csv' = f
    /\ UNCHANGED <<pc, df, dtypes, missing_cols, start_date, end_date,
                   filtered_df, total_energy, total_cost, max_power,
                   selected_plots, plots, outcome, refreshed>>

---------------------------------------------------------------------------
(* Specifications *)

InitOver(Files) ==
    /\ pc = "load"
    /\ csv \in Files
    /\ df = <<>>
    /\ dtypes = NoDtypes
    /\ missing_cols = <<>>
    /\ start_date = 0
    /\ end_date = 0
    /\ filtered_df = <<>>
    /\ total_energy = Unset
    /\ total_cost = Unset
    /\ max_power = Unset
    /\ selected_plots = <<>>
    /\ plots = <<>>
    /\ outcome = "Running"
    /\ refreshed = FALSE

NextOver(Files, Requests) ==
    \/ Load
    \/ DateFilter
    \/ Insights
    \/ MultiSelect(Requests)
    \/ Plot
    \/ Finish
    \/ Refresh
    \/ SourceChanges(Files)

\* the page: the files the logger may leave, the titles the widget offers
Init == InitOver(AppFiles)
Next == NextOver(AppFiles, AppRequests)
Spec == Init /\ [][Next]_vars

\* the plotting loop handed titles by any caller
InitRequests == InitOver(PlotFiles)
NextRequests == NextOver(PlotFiles, AnyRequests)
SpecRequests == InitRequests /\ [][NextRequests]_vars

---------------------------------------------------------------------------
(* What the claims speak of, stated apart from the code's own arithmetic *)

\* the instant h:m:s of day d
ClockTicks(d, h, m, s) == (((d * 24 + h) * 60 + m) * 60 + s) * TicksPerSecond

\* the calendar day of an instant
CalendarDay(t) == t \div (24 * 60 * 60 * TicksPerSecond)

SeqRange(s) == {s[i] : i \in 1..Len(s)}

FullHeader == csv.exists /\ csv.cols = ExpectedSet

\* the pass got past the date filter, the insights, into the plotting loop
FilterRan ==
    \/ pc \in {"insights", "multiselect", "plots"}
    \/ outcome \in {"NoDataInRange", "FormatError", "PlotKeyError", "Rendered"}

InsightsRan ==
    \/ pc \in {"multiselect", "plots"}
    \/ outcome \in {"FormatError", "PlotKeyError", "Rendered"}

PlotsRan == pc = "plots" \/ outcome \in {"PlotKeyError", "Rendered"}

NoMetrics ==
    /\ total_energy = Unset
    /\ total_cost = Unset
    /\ max_power = Unset
    /\ plots = <<>>

\* the rows whose cell of a column is a number, by position
Parseable(frame, col) == {i \in 1..Len(frame) : frame[i][col].kind = "number"}

\* last parseable value minus first parseable value, 0 with fewer than two
EndpointDelta(frame, col) ==
    LET P == Parseable(frame, col) IN
    IF Cardinality(P) >= 2
    THEN LET first == CHOOSE i \in P : \A j \in P : i <= j
             last == CHOOSE i \in P : \A j \in P : j <= i
         IN frame[last][col].val - frame[first][col].val
    ELSE 0

\* the largest parseable value of a column, NaN when there is none
LargestParseable(frame, col) ==
    LET P == Parseable(frame, col) IN
    IF P = {} THEN NaN
    ELSE Num(frame[CHOOSE i \in P : \A j \in P :
                        frame[j][col].val <= frame[i][col].val][col].val)

\* the input rows whose Time parses, by position
Timed(rows) == {i \in 1..Len(rows) : rows[i]["Time"].kind = "datetime"}

---------------------------------------------------------------------------
(* C1: the range filter returns exactly the records whose timestamp t has   *)
(* start_date 00:00:00 <= t <= end_date 23:59:59, in their original order;  *)
(* with start_date > end_date it returns nothing and does not fail.         *)
C1_RangeFilterExact ==
    FilterRan =>
        LET InRange(r) ==
                /\ ClockTicks(start_date, 0, 0, 0) <= r["Time"]
                /\ r["Time"] <= ClockTicks(end_date, 23, 59, 59)
        IN /\ filtered_df = SelectSeq(df, InRange)
           /\ start_date > end_date =>
                filtered_df = <<>> /\ outcome = "NoDataInRange"

\* one day selected: a record stamped 23:59:59 of it is kept, another record
\* of the dataset is left out
C1_Witness ==
    /\ FilterRan
    /\ start_date = end_date
    /\ Len(filtered_df) < Len(df)
    /\ \E i \in 1..Len(filtered_df) :
        filtered_df[i]["Time"] = ClockTicks(end_date, 23, 59, 59)

\* an inverted range
C1_WitnessInverted ==
    FilterRan /\ start_date > end_date /\ Len(df) >= 2

(* C2: total_energy is the last parseable Energy (kWh) value minus the     *)
(* first when at least two rows have one, else 0; unparseable cells are    *)
(* skipped; nothing is clamped; the same for total_cost over Cost (BDT).   *)
C2_EndpointDeltas ==
    InsightsRan =>
        /\ total_energy = Num(EndpointDelta(filtered_df, "Energy (kWh)"))
        /\ total_cost = Num(EndpointDelta(filtered_df, "Cost (BDT)"))

\* a negative delta over a column with an unparseable cell in it
C2_Witness ==
    /\ InsightsRan
    /\ total_energy.val < 0
    /\ \E i \in 1..Len(filtered_df) :
        filtered_df[i]["Energy (kWh)"].kind # "number"

\* the values 1.0, 1.5, 2.25 give 1.25
C2_WitnessExample ==
    /\ InsightsRan
    /\ Column(filtered_df, "Energy (kWh)")
         = <<NumberCell(4), NumberCell(6), NumberCell(9)>>
    /\ total_energy = Num(5)

\* fewer than two parseable Cost (BDT) values
C2_WitnessFewerThanTwo ==
    /\ InsightsRan
    /\ Len(filtered_df) >= 2
    /\ Cardinality(Parseable(filtered_df, "Cost (BDT)")) = 1
    /\ total_cost = Num(0)

(* C3: a file with a data row that lacks some of the seven required        *)
(* columns (Time included) ends in the schema error naming exactly the     *)
(* missing columns, and nothing is filtered or computed.                   *)
C3_SchemaErrorForAnyMissing ==
    (csv.exists /\ csv.rows # <<>> /\ csv.cols # ExpectedSet /\ pc # "load") =>
        /\ pc = "stopped"
        /\ outcome = "SchemaError"
        /\ SeqRange(missing_cols) = ExpectedSet \ csv.cols
        /\ filtered_df = <<>>
        /\ NoMetrics

(* C4: with the seven required columns the loaded dataset is exactly the   *)
(* input rows whose Time parses, in their original order, none dropped,    *)
(* reordered or duplicated, whatever their numeric cells hold.             *)
C4_LoadKeepsTimedRows ==
    (FullHeader /\ csv.rows # <<>> /\ pc # "load") =>
        LET T == Timed(csv.rows)
            Rank(i) == Cardinality({j \in T : j <= i})
        IN /\ Len(df) = Cardinality(T)
           /\ Len(df) <= Len(csv.rows)
           /\ \A i \in T :
                /\ df[Rank(i)]["Time"] =
                     ClockTicks(csv.rows[i]["Time"].day, 0, 0,
                                csv.rows[i]["Time"].sec)
                     + csv.rows[i]["Time"].tick
                /\ \A col \in NumericCols :
                     df[Rank(i)][col] = csv.rows[i][col]

\* a row with an unparseable Time between two rows that are kept
C4_Witness ==
    /\ FullHeader
    /\ pc # "load"
    /\ Len(csv.rows) = 3
    /\ Timed(csv.rows) = {1, 3}
    /\ Len(df) = 2
    /\ df[1]["Time"] # df[2]["Time"]

\* a row kept although a numeric cell of it is text
C4_WitnessNumericText ==
    /\ FullHeader
    /\ pc # "load"
    /\ \E i \in 1..Len(df) : df[i]["Energy (kWh)"].kind = "text"

(* C5: a file that exists and has no data row ends in the empty-dataset    *)
(* outcome, which is neither the schema error nor source-not-found, and    *)
(* nothing is parsed, filtered or computed.                                *)
C5_EmptyFileOutcome ==
    /\ (csv.exists /\ csv.rows = <<>> /\ pc # "load") =>
        /\ pc = "stopped"
        /\ outcome = "EmptyDataset"
        /\ df = <<>>
        /\ missing_cols = <<>>
        /\ filtered_df = <<>>
        /\ NoMetrics
    /\ (outcome = "EmptyDataset") => (csv.exists /\ csv.rows = <<>>)
    /\ (~csv.exists /\ pc # "load") => outcome = "SourceNotFound"

\* a header-only file that also lacks required columns
C5_Witness ==
    /\ csv.exists
    /\ csv.rows = <<>>
    /\ "Time" \notin csv.cols
    /\ outcome = "EmptyDataset"

(* C6: max_power is the largest Power (W) value over the rows whose cell   *)
(* is parseable, unparseable cells ignored, and NaN when there is none.    *)
C6_MaxPowerOverParseable ==
    InsightsRan => max_power = LargestParseable(filtered_df, "Power (W)")

(* C7: every record whose calendar day lies in start_date..end_date is in  *)
(* the filter result, so the range from the earliest to the latest record  *)
(* day returns the whole loaded dataset.                                   *)
C7_WholeDaysCovered ==
    FilterRan =>
        \A i \in 1..Len(df) :
            (start_date <= CalendarDay(df[i]["Time"])
             /\ CalendarDay(df[i]["Time"]) <= end_date)
            => df[i] \in SeqRange(filtered_df)

(* C8: with a data row and the seven required columns, a pass whose        *)
(* filtered dataset is empty (nothing in range, or every row dropped for   *)
(* its Time) ends in the no-data outcome and reports no metric.            *)
C8_EmptyFilteredIsNoData ==
    (FullHeader /\ csv.rows # <<>> /\ pc = "stopped" /\ filtered_df = <<>>) =>
        outcome = "NoDataInRange" /\ NoMetrics

PassDetermined ==
    LET o == LoadOutcome(csv)
        frame == IF o = "SourceNotFound" THEN <<>>
                 ELSE IF o \in {"EmptyDataset", "KeyError"} THEN csv.rows
                 ELSE DropNaT(ParseTimes(csv.rows))
        filtered == IF FilterRan
                    THEN RangeFilter(frame, start_date, end_date) ELSE <<>>
    IN /\ df = IF pc # "load" THEN frame ELSE <<>>
       /\ dtypes = IF pc # "load" /\ csv.exists THEN ReadDtypes(csv)
                   ELSE NoDtypes
       /\ missing_cols = IF pc # "load" /\ o = "SchemaError"
                         THEN MissingCols(csv.cols) ELSE <<>>
       /\ filtered_df = filtered
       /\ ~FilterRan => start_date = 0 /\ end_date = 0
       /\ total_energy = IF InsightsRan
                         THEN Num(Delta(NumericSeries(filtered, "Energy (kWh)")))
                         ELSE Unset
       /\ total_cost = IF InsightsRan
                       THEN Num(Delta(NumericSeries(filtered, "Cost (BDT)")))
                       ELSE Unset
       /\ max_power = IF InsightsRan
                      THEN PowerMax(filtered,
                                    ColumnDtype(csv.rows, "Power (W)"))
                      ELSE Unset
       /\ ~PlotsRan => selected_plots = <<>> /\ plots = <<>>
       /\ outcome = "Rendered" =>
            plots = [k \in 1..Len(selected_plots) |->
                        [title |-> selected_plots[k],
                         pairs |-> Projection(filtered,
                                      plot_options[selected_plots[k]][1],
                                      plot_options[selected_plots[k]][2])]]

(* C10: at every point of every pass, over any sequence of refreshes, the  *)
(* pass's values depend on the source file, the selected range and the     *)
(* selected titles alone (so two passes over the same source and range     *)
(* agree, and nothing of an earlier pass is left), and no step of a pass   *)
(* changes the source file.                                                *)
C10_PassesAreStateless ==
    /\ []PassDetermined
    /\ [][(pc # "load" \/ pc' # "load") => csv' = csv]_vars

\* a pass started by the refresh and drawn to the end
C10_Witness ==
    /\ refreshed
    /\ outcome = "Rendered"
    /\ Len(df) >= 2
    /\ plots # <<>>

====
